---------------------------- MODULE Spec2Model ----------------------------
(***************************************************************************)
(* Firefly placement of wireless mesh routers (src/src/main.rs, with the   *)
(* variant of ff-wmn-fix-client.rs).                                       *)
(*                                                                         *)
(* Lengths are fixed-point: one unit is 0.25, so LOWER_BOUND..UPPER_BOUND  *)
(* is 0..128 and the communication range 4.5 is 18.  An f64 that is the    *)
(* quotient of two counts is the exact fraction [num, den]; den = 0 is the *)
(* NaN that 0.0 / 0.0 yields.  Vectors are 1-based, the code's 0-based.    *)
(***************************************************************************)
EXTENDS Integers, Sequences, FiniteSets, TLC

\* ------------------------------------------------------------ constants
\* Scaled-down population sizes and iteration count (16, 32 and 100 in the
\* source).
NUMBER_OF_MESH_ROUTERS == 3
NUMBER_OF_MESH_CLIENTS == 2
NUMBER_OF_ITERATIONS == 2
DIMENSIONS == 2
\* 0.5 in units of 0.25
ALPHA == 2
BETA0 == 1
GAMMA == 1
LOWER_BOUND == 0
\* 32.0 in units of 0.25
UPPER_BOUND == 128
\* 4.5 in units of 0.25
MAXIMUM_COMMUNICATION_DISTANCE == 18
\* Longest router and client set given to the evaluators on their own.
MaxRouters == 3
MaxClients == 2
\* Period of the sequence of draws the random generator yields.
TapeLen == 5

\* ------------------------------------------------------------ f64 values
\* ff-wmn-fix-client.rs takes the metrics as percentages of these.
number_of_mesh_routers == NUMBER_OF_MESH_ROUTERS
number_of_mesh_clients == NUMBER_OF_MESH_CLIENTS

GCD[a \in Nat, b \in Nat] == IF b = 0 THEN a ELSE GCD[b, a % b]

NaN == [num |-> 0, den |-> 0]
IsNaN(x) == x.den = 0

\* The f64 n / d of two non-negative integers, in lowest terms.
Frac[n \in Nat, d \in Nat] ==
    IF d = 0 THEN NaN
    ELSE [num |-> n \div GCD[n, d], den |-> d \div GCD[n, d]]

F64Value == [num : Nat, den : Nat]

\* n as f64
F64[n \in Nat] == Frac[n, 1]
\* a + b, a * b, a / b on f64, NaN when an operand is
FAdd[a \in F64Value, b \in F64Value] ==
    IF IsNaN(a) \/ IsNaN(b) THEN NaN
    ELSE Frac[a.num * b.den + b.num * a.den, a.den * b.den]
FMul[a \in F64Value, b \in F64Value] ==
    IF IsNaN(a) \/ IsNaN(b) THEN NaN
    ELSE Frac[a.num * b.num, a.den * b.den]
FDiv[a \in F64Value, b \in F64Value] ==
    IF IsNaN(a) \/ IsNaN(b) THEN NaN
    ELSE Frac[a.num * b.den, a.den * b.num]
\* a > b on f64: false whenever an operand is NaN.
FGt(a, b) == ~IsNaN(a) /\ ~IsNaN(b) /\ a.num * b.den > b.num * a.den
FGe(a, b) == ~IsNaN(a) /\ ~IsNaN(b) /\ a.num * b.den >= b.num * a.den

PRIORITY_SGC == Frac[8, 10]
PRIORITY_NCMC == Frac[1, 10]
PRIORITY_NCMCPR == Frac[1, 10]

\* ------------------------------------------------------------ geometry
RECURSIVE SumSquares(_, _, _)
SumSquares(x, y, k) ==
    IF k = 0 THEN 0
    ELSE (x[k] - y[k]) * (x[k] - y[k]) + SumSquares(x, y, k - 1)

\* The square of distance(x, y): zip stops at the shorter vector.
distance2(x, y) ==
    SumSquares(x, y, IF Len(x) < Len(y) THEN Len(x) ELSE Len(y))

\* InRange with the comparison strict: a node exactly at the range is out.
InRange_Strict(x, y) ==
    distance2(x, y) < MAXIMUM_COMMUNICATION_DISTANCE * MAXIMUM_COMMUNICATION_DISTANCE

\* distance(x, y) <= MAXIMUM_COMMUNICATION_DISTANCE, compared on the squares
\* (sqrt is monotone and exact on the squares of grid lengths).
InRange(x, y) ==
    distance2(x, y) <= MAXIMUM_COMMUNICATION_DISTANCE * MAXIMUM_COMMUNICATION_DISTANCE

\* ------------------------------------------------------------ sgc
\* queue.push_back(i) without the push: neighbours of neighbours are lost.
Enqueue_Dropped(queue, k) == queue

\* queue.push_back(i)
Enqueue(queue, k) == Append(queue, k)

\* sgc as its loops run, one loop step per application: at "start" the for
\* over start, at "pop" the while let over the VecDeque, at "scan" the inner
\* for over the routers (k is its index).  visited is the set of marked
\* indices; sizes collects component_size of each component completed.
SgcLoops(routers) ==
    LET n == Len(routers)
        Loop[st \in [at : {"start", "pop", "scan"}, start : 1..(n + 1),
                     current : 0..n, k : 1..(n + 1), visited : SUBSET (1..n),
                     queue : Seq(1..n), component_size : 0..n,
                     largest_component : 0..n, sizes : Seq(1..n)]] ==
            CASE st.at = "start" ->
                    IF st.start > n THEN st
                    ELSE IF st.start \in st.visited
                    THEN Loop[[st EXCEPT !.start = @ + 1]]
                    ELSE Loop[[st EXCEPT !.at = "pop",
                                         !.visited = @ \cup {st.start},
                                         !.queue = <<st.start>>,
                                         !.component_size = 1]]
              [] st.at = "pop" ->
                    IF st.queue = <<>>
                    THEN Loop[[st EXCEPT
                                 !.at = "start", !.start = @ + 1,
                                 !.largest_component =
                                     IF st.component_size > @
                                     THEN st.component_size ELSE @,
                                 !.sizes = Append(@, st.component_size)]]
                    ELSE Loop[[st EXCEPT !.at = "scan",
                                         !.current = Head(st.queue),
                                         !.queue = Tail(st.queue), !.k = 1]]
              [] st.at = "scan" ->
                    IF st.k > n THEN Loop[[st EXCEPT !.at = "pop"]]
                    ELSE IF st.k \notin st.visited
                            /\ InRange(routers[st.current], routers[st.k])
                    THEN Loop[[st EXCEPT !.k = @ + 1,
                                         !.visited = @ \cup {st.k},
                                         !.queue = Enqueue(@, st.k),
                                         !.component_size = @ + 1]]
                    ELSE Loop[[st EXCEPT !.k = @ + 1]]
    IN Loop[[at |-> "start", start |-> 1, current |-> 0, k |-> 1,
             visited |-> {}, queue |-> <<>>, component_size |-> 0,
             largest_component |-> 0, sizes |-> <<>>]]

\* largest_component, a usize
sgc(routers) == SgcLoops(routers).largest_component

\* The sizes of the components the traversal completed, in order.
ComponentSizes(routers) == SgcLoops(routers).sizes

\* ------------------------------------------------------------ ncmc
\* CoveredBy without the break: one count per covering router.
RECURSIVE CoveredBy_NoBreak(_, _, _)
CoveredBy_NoBreak(routers, client, k) ==
    IF k > Len(routers) THEN 0
    ELSE (IF InRange(routers[k], client) THEN 1 ELSE 0)
         + CoveredBy_NoBreak(routers, client, k + 1)

\* for router in routers { if in range { covered += 1; break } }
RECURSIVE CoveredBy(_, _, _)
CoveredBy(routers, client, k) ==
    IF k > Len(routers) THEN 0
    ELSE IF InRange(routers[k], client) THEN 1
    ELSE CoveredBy(routers, client, k + 1)

RECURSIVE CountCovered(_, _, _)
CountCovered(routers, clients, c) ==
    IF c > Len(clients) THEN 0
    ELSE CoveredBy(routers, clients[c], 1) + CountCovered(routers, clients, c + 1)

\* covered_clients, a usize
ncmc(routers, clients) == CountCovered(routers, clients, 1)

\* ncmc as f64 / routers.len() as f64
ncmcpr(routers, clients) == FDiv[F64[ncmc(routers, clients)], F64[Len(routers)]]

\* (PRIORITY_SGC * sgc) + (PRIORITY_NCMC * ncmc) + (PRIORITY_NCMCPR * ncmcpr)
WeightedSum(s, c, p) ==
    FAdd[FAdd[FMul[PRIORITY_SGC, s], FMul[PRIORITY_NCMC, c]],
         FMul[PRIORITY_NCMCPR, p]]

fitness_function(routers, clients) ==
    WeightedSum(F64[sgc(routers)], F64[ncmc(routers, clients)],
                ncmcpr(routers, clients))

\* ------------------------------------------ ff-wmn-fix-client.rs metrics
\* (largest_component / number_of_mesh_routers) * 100.0
sgc_wmn(routers) == Frac[100 * sgc(routers), number_of_mesh_routers]

\* (covered_clients / number_of_mesh_clients) * 100.0
ncmc_wmn(routers, clients) == Frac[100 * ncmc(routers, clients), number_of_mesh_clients]

ncmcpr_wmn(routers, clients) == FDiv[ncmc_wmn(routers, clients), F64[Len(routers)]]

fitness_function_wmn(routers, clients) ==
    WeightedSum(sgc_wmn(routers), ncmc_wmn(routers, clients),
                ncmcpr_wmn(routers, clients))

\* ------------------------------------------------------------ the move
\* exp(-n / 16) in ten-thousandths, n a squared distance in grid units
\* (r_ij * r_ij = n / 16); below 1e-4 from n = 148 on.
ExpTable[n \in 0..150] ==
    IF n = 0 THEN 10000 ELSE (ExpTable[n - 1] * 9394) \div 10000

\* BETA0 * (-GAMMA * r_ij * r_ij).exp(), in ten-thousandths
BetaOf(x, y) ==
    LET n == GAMMA * distance2(x, y)
    IN IF n > 150 THEN 0 ELSE BETA0 * ExpTable[n]

\* beta * (x_j[d] - x_i[d]), rounded to the grid
AttractionOf(b, xj, xi) == (2 * b * (xj - xi) + 10000) \div 20000

\* rng.gen::<f64>() - 0.5, doubled: the draws 0, 1/2 and just under 1.
Draws == {-1, 0, 1}

\* ALPHA * (rng.gen::<f64>() - 0.5) for the doubled draw u, rounded to the grid
RandomnessOf(u) == (ALPHA * u) \div 2

\* clamp that forgets the upper bound.
clamp_NoUpper(v, lo, hi) == IF v < lo THEN lo ELSE v

\* f64::clamp
clamp(v, lo, hi) == IF v < lo THEN lo ELSE IF v > hi THEN hi ELSE v

\* ------------------------------------------------------------ state
VARIABLES
    variant,            \* the firefly_algorithm that runs: "main", "wmn", "draft"
    rng_tape, rng_pos,  \* the generator: its sequence of draws, the next one
    pc,                 \* position in firefly_algorithm / fitness_function
    mesh_routers, mesh_clients,
    best_mesh_routers, best_fitness, current_fitness,
    iter, i, j, d,      \* iterations completed; loop indices
    beta, attraction, randomness,
    unclamped,          \* mesh_routers[i][d] between += and clamp
    sgc_value, ncmc_value, ncmcpr_value,
    saved,              \* the records given to save_results, in order
    history,            \* the fitness the population had at initialization
                        \* and at the end of each iteration so far
    sweep,              \* the pairs (i, j) moved so far in this iteration
    sweep_start         \* mesh_routers as the iteration began

vars == <<variant, rng_tape, rng_pos, pc, mesh_routers, mesh_clients,
          best_mesh_routers, best_fitness, current_fitness, iter, i, j, d,
          beta, attraction, randomness, unclamped, sgc_value, ncmc_value,
          ncmcpr_value, saved, history, sweep, sweep_start>>

\* ff-wmn-fix-client.rs has its own metrics.
Fitness(v, routers, clients) ==
    IF v = "main" THEN fitness_function(routers, clients)
    ELSE fitness_function_wmn(routers, clients)
SgcValue(v, routers) ==
    IF v = "main" THEN F64[sgc(routers)] ELSE sgc_wmn(routers)
NcmcValue(v, routers, clients) ==
    IF v = "main" THEN F64[ncmc(routers, clients)] ELSE ncmc_wmn(routers, clients)
NcmcprValue(v, routers, clients) ==
    IF v = "main" THEN ncmcpr(routers, clients) ELSE ncmcpr_wmn(routers, clients)

\* Router k of a row of routers gap apart, starting at <<x0, y0>>.
RouterRow(x0, y0, gap) ==
    [k \in 1..NUMBER_OF_MESH_ROUTERS |->
        [c \in 1..DIMENSIONS |-> IF c = 1 THEN x0 + (k - 1) * gap ELSE y0]]

\* Populations gen_range(LOWER_BOUND..UPPER_BOUND) can draw: neighbours
\* exactly at the range on the lower bound, neighbours just out of range, and
\* a tight row ending next to the upper bound.
InitialRouters ==
    { RouterRow(LOWER_BOUND, LOWER_BOUND, MAXIMUM_COMMUNICATION_DISTANCE),
      RouterRow(LOWER_BOUND + 1, LOWER_BOUND, MAXIMUM_COMMUNICATION_DISTANCE + 1),
      RouterRow(UPPER_BOUND - 1 - 2 * (NUMBER_OF_MESH_ROUTERS - 1),
                UPPER_BOUND - 1, 2) }

ClientRow(x0, y0, gap) ==
    [k \in 1..NUMBER_OF_MESH_CLIENTS |->
        [c \in 1..DIMENSIONS |-> IF c = 1 THEN x0 + (k - 1) * gap ELSE y0]]

InitialClients ==
    { ClientRow(LOWER_BOUND, MAXIMUM_COMMUNICATION_DISTANCE,
                MAXIMUM_COMMUNICATION_DISTANCE),
      ClientRow(UPPER_BOUND - 8, UPPER_BOUND - MAXIMUM_COMMUNICATION_DISTANCE, 3) }

\* The loop one iteration short.
IterationsLeft_OneShort(n) == n + 1 < NUMBER_OF_ITERATIONS

\* for _ in 0..NUMBER_OF_ITERATIONS, after n iterations
IterationsLeft(n) == n < NUMBER_OF_ITERATIONS

\* Where the run goes after n iterations.
LoopHead(n) ==
    IF ~IterationsLeft(n) THEN "save"
    ELSE IF NUMBER_OF_MESH_ROUTERS = 0 THEN "evaluate" ELSE "pair"

\* best_fitness as the run starts: of the initial population in main.rs and
\* in the draft, 0.0 in ff-wmn-fix-client.rs.
InitialBest(v, routers, clients) ==
    IF v = "wmn" THEN F64[0] ELSE Fitness(v, routers, clients)

\* The state at the head of the iteration loop.
InitRun(v) ==
    /\ variant = v
    /\ rng_tape \in [1..TapeLen -> Draws]
    /\ rng_pos = 1
    /\ mesh_clients \in InitialClients
    /\ mesh_routers \in InitialRouters
    /\ best_mesh_routers = mesh_routers
    /\ best_fitness = InitialBest(v, mesh_routers, mesh_clients)
    /\ current_fitness = F64[0]
    /\ history = {Fitness(v, mesh_routers, mesh_clients)}
    /\ iter = 0 /\ i = 1 /\ j = 1 /\ d = 1
    /\ beta = 0 /\ attraction = 0 /\ randomness = 0 /\ unclamped = 0
    /\ sgc_value = F64[0] /\ ncmc_value = F64[0] /\ ncmcpr_value = F64[0]
    /\ saved = <<>>
    /\ sweep = <<>>
    /\ sweep_start = mesh_routers
    /\ pc = LoopHead(0)

Init == InitRun("main")

\* j += 1, and i += 1 when the j loop ends; the sweep ends with the i loop.
NextIndex ==
    /\ j' = IF j = NUMBER_OF_MESH_ROUTERS THEN 1 ELSE j + 1
    /\ i' = IF j = NUMBER_OF_MESH_ROUTERS THEN i + 1 ELSE i
    /\ pc' = IF j = NUMBER_OF_MESH_ROUTERS /\ i = NUMBER_OF_MESH_ROUTERS
             THEN "evaluate" ELSE "pair"

\* The move reading a snapshot frozen as the iteration began.
PositionsRead_Frozen == sweep_start

\* The positions the move of router i reads.
PositionsRead == mesh_routers

\* if i != j { r_ij; beta }  (the draft has no such test)
BeginPair ==
    /\ pc = "pair"
    /\ i # j \/ variant = "draft"
    /\ beta' = BetaOf(PositionsRead[i], PositionsRead[j])
    /\ sweep' = Append(sweep, <<i, j>>)
    /\ d' = 1
    /\ pc' = "coord"
    /\ UNCHANGED <<variant, rng_tape, rng_pos, mesh_routers, mesh_clients,
                   best_mesh_routers, best_fitness, current_fitness, iter, i,
                   j, attraction, randomness, unclamped, sgc_value,
                   ncmc_value, ncmcpr_value, saved, history, sweep_start>>

\* i == j: the pair is skipped
SkipSelf ==
    /\ pc = "pair"
    /\ i = j /\ variant # "draft"
    /\ NextIndex
    /\ UNCHANGED <<variant, rng_tape, rng_pos, mesh_routers, mesh_clients,
                   best_mesh_routers, best_fitness, current_fitness, iter, d,
                   beta, attraction, randomness, unclamped, sgc_value,
                   ncmc_value, ncmcpr_value, saved, history, sweep,
                   sweep_start>>

\* The body of the for d loop: attraction, randomness, +=, clamp.
UpdateCoord ==
    /\ pc = "coord"
    /\ randomness' = RandomnessOf(rng_tape[rng_pos])
    /\ rng_pos' = (rng_pos % TapeLen) + 1
    /\ attraction' = AttractionOf(beta, PositionsRead[j][d], PositionsRead[i][d])
    /\ unclamped' = mesh_routers[i][d] + attraction' + randomness'
    /\ mesh_routers' =
         [mesh_routers EXCEPT ![i][d] = clamp(unclamped', LOWER_BOUND, UPPER_BOUND)]
    /\ pc' = "coord_done"
    /\ UNCHANGED <<variant, rng_tape, mesh_clients, best_mesh_routers,
                   best_fitness, current_fitness, iter, i, j, d, beta,
                   sgc_value, ncmc_value, ncmcpr_value, saved, history, sweep,
                   sweep_start>>

\* d += 1; the pair is done with the last dimension.
NextCoord ==
    /\ pc = "coord_done"
    /\ IF d = DIMENSIONS
       THEN NextIndex /\ d' = 1
       ELSE d' = d + 1 /\ pc' = "coord" /\ UNCHANGED <<i, j>>
    /\ UNCHANGED <<variant, rng_tape, rng_pos, mesh_routers, mesh_clients,
                   best_mesh_routers, best_fitness, current_fitness, iter,
                   beta, attraction, randomness, unclamped, sgc_value,
                   ncmc_value, ncmcpr_value, saved, history, sweep,
                   sweep_start>>

\* The comparison inverted (lower is better), and with ties replacing.
Improves_Inverted(current, best) == FGt(best, current)
Improves_OrEqual(current, best) == FGe(current, best)

\* current_fitness > best_fitness
Improves(current, best) == FGt(current, best)

\* The end of one iteration: current_fitness and the update of the best.
EvaluateIteration ==
    /\ pc = "evaluate"
    /\ current_fitness' = Fitness(variant, mesh_routers, mesh_clients)
    /\ IF Improves(current_fitness', best_fitness)
       THEN best_fitness' = current_fitness' /\ best_mesh_routers' = mesh_routers
       ELSE UNCHANGED <<best_fitness, best_mesh_routers>>
    /\ history' = history \cup {current_fitness'}
    /\ iter' = iter + 1
    /\ i' = 1 /\ j' = 1 /\ d' = 1
    /\ sweep' = <<>>
    /\ sweep_start' = mesh_routers
    /\ pc' = LoopHead(iter + 1)
    /\ UNCHANGED <<variant, rng_tape, rng_pos, mesh_routers, mesh_clients,
                   beta, attraction, randomness, unclamped, sgc_value,
                   ncmc_value, ncmcpr_value, saved>>

\* The routers whose positions and metrics are written: the best, but the
\* live population in the draft at the end of ff-wmn-fix-client.rs.
RoutersSaved == IF variant = "draft" THEN mesh_routers ELSE best_mesh_routers

\* sgc_value, ncmc_value, ncmcpr_value, then save_results
SaveResults ==
    /\ pc = "save"
    /\ sgc_value' = SgcValue(variant, RoutersSaved)
    /\ ncmc_value' = NcmcValue(variant, RoutersSaved, mesh_clients)
    /\ ncmcpr_value' = NcmcprValue(variant, RoutersSaved, mesh_clients)
    /\ saved' = Append(saved,
                       [mesh_routers |-> RoutersSaved,
                        mesh_clients |-> mesh_clients,
                        best_fitness |-> best_fitness,
                        sgc |-> sgc_value', ncmc |-> ncmc_value',
                        ncmcpr |-> ncmcpr_value'])
    /\ pc' = "done"
    /\ UNCHANGED <<variant, rng_tape, rng_pos, mesh_routers, mesh_clients,
                   best_mesh_routers, best_fitness, current_fitness, iter, i,
                   j, d, beta, attraction, randomness, unclamped, history,
                   sweep, sweep_start>>

Next ==
    \/ BeginPair
    \/ SkipSelf
    \/ UpdateCoord
    \/ NextCoord
    \/ EvaluateIteration
    \/ SaveResults

Spec == Init /\ [][Next]_vars

\* The run is one sequential computation: it always takes its next step.
FairSpec == Spec /\ WF_vars(Next)

\* firefly_algorithm of ff-wmn-fix-client.rs
InitWmn == InitRun("wmn")
SpecWmn == InitWmn /\ [][Next]_vars

\* The draft that follows it in the same file: every pair (i, j) is moved.
InitDraft == InitRun("draft")
NextDraft == BeginPair \/ UpdateCoord \/ NextCoord \/ EvaluateIteration \/ SaveResults
SpecDraft == InitDraft /\ [][NextDraft]_vars

\* ------------------------------------------------- the evaluators alone
\* Router and client positions for fitness_function on its own: a chain with
\* neighbours exactly at the range, and points in range of a router along
\* each axis but not in the plane.
EvalRouterPoints ==
    { <<0, 0>>, <<MAXIMUM_COMMUNICATION_DISTANCE, 0>>,
      <<2 * MAXIMUM_COMMUNICATION_DISTANCE, 0>>, <<10, 15>> }
EvalClientPoints ==
    { <<0, MAXIMUM_COMMUNICATION_DISTANCE>>, <<13, 13>>, <<60, 60>> }

SeqsUpTo(S, n) == UNION {[1..m -> S] : m \in 0..n}

\* A call fitness_function(routers, clients) of any router and client slice.
InitEval ==
    /\ variant = "main"
    /\ rng_tape = [k \in 1..TapeLen |-> 0]
    /\ rng_pos = 1
    /\ mesh_routers \in SeqsUpTo(EvalRouterPoints, MaxRouters)
    /\ mesh_clients \in SeqsUpTo(EvalClientPoints, MaxClients)
    /\ best_mesh_routers = mesh_routers
    /\ best_fitness = F64[0]
    /\ current_fitness = F64[0]
    /\ history = {}
    /\ iter = 0 /\ i = 1 /\ j = 1 /\ d = 1
    /\ beta = 0 /\ attraction = 0 /\ randomness = 0 /\ unclamped = 0
    /\ sgc_value = F64[0] /\ ncmc_value = F64[0] /\ ncmcpr_value = F64[0]
    /\ saved = <<>>
    /\ sweep = <<>>
    /\ sweep_start = mesh_routers
    /\ pc = "fit_sgc"

EvalUnchanged ==
    UNCHANGED <<variant, rng_tape, rng_pos, mesh_routers, mesh_clients,
                best_mesh_routers, best_fitness, iter, i, j, d, beta,
                attraction, randomness, unclamped, saved, history, sweep,
                sweep_start>>

\* let sgc = sgc(routers) as f64;
FitSgc ==
    /\ pc = "fit_sgc"
    /\ sgc_value' = F64[sgc(mesh_routers)]
    /\ pc' = "fit_ncmc"
    /\ UNCHANGED <<ncmc_value, ncmcpr_value, current_fitness>>
    /\ EvalUnchanged

\* let ncmc = ncmc(routers, clients) as f64;
FitNcmc ==
    /\ pc = "fit_ncmc"
    /\ ncmc_value' = F64[ncmc(mesh_routers, mesh_clients)]
    /\ pc' = "fit_ncmcpr"
    /\ UNCHANGED <<sgc_value, ncmcpr_value, current_fitness>>
    /\ EvalUnchanged

\* let ncmcpr = ncmcpr(routers, clients);
FitNcmcpr ==
    /\ pc = "fit_ncmcpr"
    /\ ncmcpr_value' = ncmcpr(mesh_routers, mesh_clients)
    /\ pc' = "fit_sum"
    /\ UNCHANGED <<sgc_value, ncmc_value, current_fitness>>
    /\ EvalUnchanged

\* (PRIORITY_SGC * sgc) + (PRIORITY_NCMC * ncmc) + (PRIORITY_NCMCPR * ncmcpr)
FitSum ==
    /\ pc = "fit_sum"
    /\ current_fitness' = WeightedSum(sgc_value, ncmc_value, ncmcpr_value)
    /\ pc' = "fit_done"
    /\ UNCHANGED <<sgc_value, ncmc_value, ncmcpr_value>>
    /\ EvalUnchanged

NextEval == FitSgc \/ FitNcmc \/ FitNcmcpr \/ FitSum
SpecEval == InitEval /\ [][NextEval]_vars

\* ------------------------------------------------------------ properties
\* The state right after the evaluation that ends an iteration.
JustEvaluated ==
    /\ iter >= 1
    /\ pc \in {"pair", "save"}
    /\ i = 1 /\ j = 1 /\ sweep = <<>>

\* C1: the recorded best fitness never decreases in any step of the run, so
\* after every iteration it is >= its value after every earlier iteration
\* and >= its initial value.
C1_BestFitnessNeverDecreases == [][FGe(best_fitness', best_fitness)]_vars

\* An iteration ended with the live population below the recorded best.
C1_PopulationDropped == JustEvaluated /\ FGt(best_fitness, current_fitness)

\* C2: the recorded best fitness is the maximum of the fitness the population
\* had at initialization and at the end of every iteration completed so far.
C2_BestIsMaxSoFar ==
    /\ best_fitness \in history
    /\ \A f \in history : FGe(best_fitness, f)

\* C3: every coordinate of every router lies in [LOWER_BOUND, UPPER_BOUND] in
\* every state: after initialization and after each coordinate update.
C3_ClampInvariant ==
    \A k \in 1..Len(mesh_routers) : \A c \in 1..DIMENSIONS :
        LOWER_BOUND <= mesh_routers[k][c] /\ mesh_routers[k][c] <= UPPER_BOUND

\* The update just made left the domain before it was clamped.
C3_ClampedAtUpperBound ==
    /\ pc = "coord_done"
    /\ unclamped > UPPER_BOUND
    /\ mesh_routers[i][d] = UPPER_BOUND

\* C4: the best positions or the best fitness change only in the evaluation
\* that ends an iteration, and only when the fitness computed there is
\* strictly greater than the recorded best; they then become the live
\* population and its fitness.  On a tie or a lower fitness both stay.
C4_ReplacedOnlyWhenStrictlyGreater ==
    [][(best_fitness' # best_fitness \/ best_mesh_routers' # best_mesh_routers)
         => /\ pc = "evaluate"
            /\ FGt(current_fitness', best_fitness)
            /\ best_fitness' = current_fitness'
            /\ best_mesh_routers' = mesh_routers]_vars

\* An iteration ended in a tie, and the best is still the earlier one.
C4_TieKeepsEarlierBest ==
    /\ JustEvaluated
    /\ current_fitness = best_fitness
    /\ best_mesh_routers # mesh_routers

\* Routers a and b are within the communication range of each other.
Edge(routers, a, b) ==
    distance2(routers[a], routers[b])
        <= MAXIMUM_COMMUNICATION_DISTANCE * MAXIMUM_COMMUNICATION_DISTANCE

\* The routers connected to those of S by a path of edges.
RECURSIVE Closure(_, _)
Closure(routers, S) ==
    LET T == S \cup {b \in 1..Len(routers) : \E a \in S : Edge(routers, a, b)}
    IN IF T = S THEN S ELSE Closure(routers, T)

Components(routers) == {Closure(routers, {a}) : a \in 1..Len(routers)}

LargestComponent(routers) ==
    IF Len(routers) = 0 THEN 0
    ELSE CHOOSE m \in {Cardinality(C) : C \in Components(routers)} :
             \A C \in Components(routers) : Cardinality(C) <= m

RECURSIVE SumOf(_)
SumOf(s) == IF s = <<>> THEN 0 ELSE Head(s) + SumOf(Tail(s))

SgcCalled == pc \in {"fit_ncmc", "fit_ncmcpr", "fit_sum", "fit_done"}

\* C5: sgc returns the size of the largest connected component of the graph
\* with an edge between routers at distance <= the range; its traversal
\* finds each component once and counts every router once; routers all out
\* of range of each other give 1, no router gives 0.
C5_SgcIsLargestComponent ==
    SgcCalled =>
        LET sizes == ComponentSizes(mesh_routers)
            n == Len(mesh_routers)
        IN /\ sgc_value = F64[LargestComponent(mesh_routers)]
           /\ Len(sizes) = Cardinality(Components(mesh_routers))
           /\ SumOf(sizes) = n
           /\ (n > 0 /\ \A a, b \in 1..n : a # b => ~Edge(mesh_routers, a, b))
                 => sgc_value = F64[1]
           /\ n = 0 => sgc_value = F64[0]

\* sgc was given a chain: two routers of the largest component are out of
\* range of each other.
C5_ChainComponent ==
    /\ SgcCalled
    /\ sgc_value = F64[3]
    /\ \E a, b \in 1..Len(mesh_routers) :
          /\ b \in Closure(mesh_routers, {a})
          /\ ~Edge(mesh_routers, a, b)

\* The routers that cover client c.
Covering(routers, clients, c) ==
    {r \in 1..Len(routers) :
        distance2(routers[r], clients[c])
            <= MAXIMUM_COMMUNICATION_DISTANCE * MAXIMUM_COMMUNICATION_DISTANCE}

Permuted(routers, p) == [k \in 1..Len(routers) |-> routers[p[k]]]

NcmcCalled == pc \in {"fit_ncmcpr", "fit_sum", "fit_done"}

\* C6: ncmc returns the number of clients with at least one router at distance
\* <= the range, each client counted once, whatever the order of the routers.
C6_NcmcCountsCoveredClients ==
    NcmcCalled =>
        /\ ncmc_value =
             F64[Cardinality({c \in 1..Len(mesh_clients) :
                                 Covering(mesh_routers, mesh_clients, c) # {}})]
        /\ \A p \in Permutations(1..Len(mesh_routers)) :
              F64[ncmc(Permuted(mesh_routers, p), mesh_clients)] = ncmc_value

\* ncmc was given a client covered only from exactly the range and a client
\* covered by two routers.
C6_BoundaryAndDoubleCover ==
    /\ NcmcCalled
    /\ \E c \in 1..Len(mesh_clients) :
          /\ Covering(mesh_routers, mesh_clients, c) # {}
          /\ \A r \in Covering(mesh_routers, mesh_clients, c) :
                distance2(mesh_routers[r], mesh_clients[c])
                    = MAXIMUM_COMMUNICATION_DISTANCE * MAXIMUM_COMMUNICATION_DISTANCE
    /\ \E c \in 1..Len(mesh_clients) :
          Cardinality(Covering(mesh_routers, mesh_clients, c)) >= 2

\* C7: the division by the router count is guarded: no NaN comes out of
\* ncmcpr, and none reaches the fitness score.
C7_DivisionGuarded ==
    /\ pc \in {"fit_sum", "fit_done"} => ~IsNaN(ncmcpr_value)
    /\ pc = "fit_done" => ~IsNaN(current_fitness)

\* The ordered pairs (a, b), a # b, each once in sweep.
SweepComplete ==
    /\ Len(sweep) = NUMBER_OF_MESH_ROUTERS * (NUMBER_OF_MESH_ROUTERS - 1)
    /\ {sweep[k] : k \in 1..Len(sweep)}
         = {p \in (1..NUMBER_OF_MESH_ROUTERS) \X (1..NUMBER_OF_MESH_ROUTERS) :
               p[1] # p[2]}

\* C8: every run ends; an iteration is evaluated only after every ordered pair
\* (i, j), i # j, was moved exactly once; the run leaves the loop after exactly
\* NUMBER_OF_ITERATIONS iterations; and the best Configuration is saved exactly
\* once, after the last iteration.
RunInOrder ==
    /\ pc = "evaluate" => SweepComplete
    /\ iter <= NUMBER_OF_ITERATIONS
    /\ pc \in {"save", "done"} => iter = NUMBER_OF_ITERATIONS
    /\ Len(saved) = IF pc = "done" THEN 1 ELSE 0
    /\ pc = "done" => saved[1].mesh_routers = best_mesh_routers

C8_RunsToCompletion ==
    /\ <>(pc = "done")
    /\ RunInOrder
    /\ [][RunInOrder']_vars

C8_Saved == pc = "done" /\ Len(saved) = 1 /\ iter = NUMBER_OF_ITERATIONS

\* C9: the move for pair (i, j) is computed from the positions as they are
\* when the pair is reached: beta from the live routers i and j, and each
\* coordinate from the live coordinates of i and j.
C9_MovesReadLivePositions ==
    [][/\ (pc = "pair" /\ pc' = "coord")
            => beta' = BetaOf(mesh_routers[i], mesh_routers[j])
       /\ pc = "coord"
            => /\ attraction' =
                    AttractionOf(beta, mesh_routers[j][d], mesh_routers[i][d])
               /\ mesh_routers' =
                    [mesh_routers EXCEPT ![i][d] =
                        clamp(@ + attraction' + randomness',
                              LOWER_BOUND, UPPER_BOUND)]]_vars

\* A move of router i toward a router j that moved earlier in the sweep, from
\* a coordinate of i that an earlier pair changed, with an attraction other
\* than the one the positions at the start of the iteration give.
C9_MoveDiffersFromSnapshot ==
    /\ pc = "coord_done"
    /\ mesh_routers[j] # sweep_start[j]
    /\ unclamped - attraction - randomness # sweep_start[i][d]
    /\ attraction # AttractionOf(BetaOf(sweep_start[i], sweep_start[j]),
                                 sweep_start[j][d], sweep_start[i][d])

\* C10: the recorded best fitness is the fitness of the stored best positions,
\* and a saved record holds the best positions, their three metrics and the
\* weighted sum of these as its fitness.
C10_BestRecordConsistent ==
    /\ best_fitness = Fitness(variant, best_mesh_routers, mesh_clients)
    /\ \A k \in 1..Len(saved) :
          LET r == saved[k]
          IN /\ r.mesh_routers = best_mesh_routers
             /\ r.sgc = SgcValue(variant, best_mesh_routers)
             /\ r.ncmc = NcmcValue(variant, best_mesh_routers, mesh_clients)
             /\ r.ncmcpr = NcmcprValue(variant, best_mesh_routers, mesh_clients)
             /\ r.best_fitness = WeightedSum(r.sgc, r.ncmc, r.ncmcpr)

=============================================================================
